---------------------------- MODULE Spec2Model ----------------------------
(***************************************************************************)
(* AmarGolpo server: an Express application over two MongoDB collections   *)
(* ("books" and "quotes").  The repository holds three revisions of the    *)
(* server: src/index.js, src/unnamed/part_000 (lazy, memoised connectDB;   *)
(* no userId check on the like toggle) and src/unnamed/part_001 (books     *)
(* only; PUT /books/:id is a bare updateOne).  A behaviour of the model is *)
(* one process running one of the three revisions.                         *)
(*                                                                         *)
(* Every `await` of a store call is a scheduling point: a handler that     *)
(* reads a document and then writes it (PUT /books/:id, PUT                *)
(* /quotes/:id/like) is two actions, the request waiting in a slot between *)
(* them.  Handlers with a single store call are one action.                *)
(***************************************************************************)
EXTENDS Integers, Sequences, FiniteSets, TLC

(* ------------------------------ bounds -------------------------------- *)
\* books created in one behaviour
MaxBooks == 2
\* quotes created in one behaviour
MaxQuotes == 2
\* length up to which a like toggle without userId is still issued
MaxLikes == 1
\* requests received in one behaviour
MaxRequests == 4

(* ------------------------------ inputs -------------------------------- *)
Variants == {"index", "part_000", "part_001"}
Users == {"u1", "u2"}
Ratings == {2, 4, 5}
Slots == {"r1", "r2"}

\* a path id that `new ObjectId(id)` rejects
BadId == 0
\* req.body.userId when the body has no userId
Undefined == "undefined"
\* BSON stores an undefined array element as null
Null == "null"

BookPathIds == 0..MaxBooks
QuotePathIds == 0..MaxQuotes

VARIABLES
  variant,          \* which revision of the server runs
  phase,            \* "init", "pinging", "listening", "exited"
  connects,         \* number of client.connect() invocations
  booksCollection,  \* 0: null/undefined; n: handle made after the n-th connect
  quotesCollection,
  books,            \* sequence of book documents, index = store-assigned id
  liveBooks,        \* ids of the books not deleted
  quotes,           \* sequence of quote documents
  liveQuotes,
  bookReqs,         \* PUT /books/:id requests between findOne and updateOne
  quoteReqs,        \* PUT /quotes/:id/like requests between findOne and updateOne
  served,           \* number of requests received
  response,         \* status code of the last response sent (0: none yet)
  submitted         \* history: per book, the ratingUpdates served one at a time

conn == <<phase, connects, booksCollection, quotesCollection>>
bookStore == <<books, liveBooks, bookReqs, submitted>>
quoteStore == <<quotes, liveQuotes, quoteReqs>>
vars == <<variant, conn, bookStore, quoteStore, served, response>>

(* ----------------------------- helpers -------------------------------- *)
EmptyDoc == [f \in {} |-> 0]

Has(doc, f) == f \in DOMAIN doc

\* MongoDB's $set: the fields of `upd` replace or extend those of `doc`
SetFields(doc, upd) ==
  [f \in DOMAIN doc \cup DOMAIN upd |-> IF f \in DOMAIN upd THEN upd[f] ELSE doc[f]]

Range(s) == {s[i] : i \in DOMAIN s}

Includes(s, x) == \E i \in DOMAIN s : s[i] = x

RECURSIVE Filter(_, _)
\* Array.prototype.filter(id => id !== x)
Filter(s, x) ==
  IF s = <<>> THEN <<>>
  ELSE IF Head(s) = x THEN Filter(Tail(s), x)
       ELSE <<Head(s)>> \o Filter(Tail(s), x)

Count(s, x) == Cardinality({i \in DOMAIN s : s[i] = x})


(* --------------------------- connection ------------------------------- *)
HasQuotes == variant \in {"index", "part_000"}

\* a connectDB without the early return
MemoisedNever == FALSE

\* part_000 connectDB: `if (booksCollection && quotesCollection) return;`
Memoised ==
  variant = "part_000" /\ booksCollection # 0 /\ quotesCollection # 0

\* connectDB when client.connect() succeeds: the handles are made anew
ConnectDB ==
  IF Memoised
  THEN UNCHANGED <<connects, booksCollection, quotesCollection>>
  ELSE /\ connects' = connects + 1
       /\ booksCollection' = connects + 1
       /\ quotesCollection' = IF HasQuotes THEN connects + 1 ELSE quotesCollection

\* startup: connectDB() is called before app.listen
StartupConnect ==
  /\ phase = "init"
  /\ ConnectDB
  /\ phase' = IF variant = "part_000" THEN "listening" ELSE "pinging"
  /\ UNCHANGED <<variant, bookStore, quoteStore, served, response>>

\* a startup whose catch does not exit: app.listen runs with no handle set
StartupConnectFailListens ==
  /\ phase = "init"
  /\ connects' = connects + 1
  /\ phase' = "listening"
  /\ UNCHANGED <<variant, booksCollection, quotesCollection, bookStore, quoteStore,
                 served, response>>

\* client.connect() rejects: connectDB throws, the catch calls process.exit(1)
StartupConnectFail ==
  /\ phase = "init"
  /\ connects' = connects + 1
  /\ phase' = "exited"
  /\ UNCHANGED <<variant, booksCollection, quotesCollection, bookStore, quoteStore,
                 served, response>>

\* index.js / part_001 connectDB: the ping after the handles are set
StartupPing ==
  /\ phase = "pinging"
  /\ phase' = "listening"
  /\ UNCHANGED <<variant, connects, booksCollection, quotesCollection,
                 bookStore, quoteStore, served, response>>

StartupPingFail ==
  /\ phase = "pinging"
  /\ phase' = "exited"
  /\ UNCHANGED <<variant, connects, booksCollection, quotesCollection,
                 bookStore, quoteStore, served, response>>

\* what every handler does before its first store call:
\* part_000 awaits connectDB(); the others only test the handle
Enter ==
  /\ phase = "listening"
  /\ phase' = phase
  /\ served < MaxRequests
  /\ served' = served + 1
  /\ IF variant = "part_000"
     THEN ConnectDB
     ELSE UNCHANGED <<connects, booksCollection, quotesCollection>>

\* `if (!collection) throw new Error('DB not connected')`
Connected(coll) == variant = "part_000" \/ coll # 0

\* GET /health
Health ==
  /\ phase = "listening"
  /\ phase' = phase
  /\ served < MaxRequests
  /\ served' = served + 1
  /\ IF \/ variant = "part_000"
        \/ variant = "index" /\ (booksCollection = 0 \/ quotesCollection = 0)
        \/ variant = "part_001" /\ booksCollection = 0
     THEN ConnectDB
     ELSE UNCHANGED <<connects, booksCollection, quotesCollection>>
  /\ response' = 200
  /\ UNCHANGED <<variant, bookStore, quoteStore>>

\* GET /health when the ping throws (part_000 does not ping)
HealthFail ==
  /\ phase = "listening"
  /\ variant # "part_000"
  /\ served < MaxRequests
  /\ served' = served + 1
  /\ response' = 500
  /\ UNCHANGED <<variant, conn, bookStore, quoteStore>>

(* ------------------------------ quotes -------------------------------- *)
QuoteBodies ==
  { [text |-> TRUE, author |-> TRUE, category |-> TRUE],
    [text |-> TRUE, author |-> FALSE, category |-> TRUE] }

IdleQuoteReq ==
  [pc |-> "idle", id |-> 0, user |-> Undefined, snap |-> <<>>, likes |-> <<>>]

QuoteFound(id) == id \in liveQuotes

\* a `$set` of likes on the quote with this id; updateOne does not upsert
SetLikes(id, likes) ==
  IF QuoteFound(id)
  THEN quotes' = [quotes EXCEPT ![id].likes = likes]
  ELSE quotes' = quotes

\* the serialised form of an array element
Bson(x) == IF x = Undefined THEN Null ELSE x

\* a toggle that never unlikes
ToggleLikesPush(likes, userId) == Append(likes, Bson(userId))

\* a toggle whose unlike leaves the array as it was
ToggleLikesKeep(likes, userId) ==
  IF Includes(likes, userId) THEN likes ELSE Append(likes, Bson(userId))

\* the toggle both revisions compute from the likes they read
ToggleLikes(likes, userId) ==
  IF Includes(likes, userId)
  THEN Filter(likes, userId)
  ELSE Append(likes, Bson(userId))

\* index.js: `if (!userId) return res.status(400)`; part_000 has no such line
RejectsMissingUser == variant = "index"

\* POST /quotes
PostQuote(body) ==
  /\ Enter
  /\ HasQuotes
  /\ IF ~Connected(quotesCollection)
     THEN response' = 500 /\ UNCHANGED <<quotes, liveQuotes>>
     ELSE IF ~(body.text /\ body.author /\ body.category)
     THEN response' = 400 /\ UNCHANGED <<quotes, liveQuotes>>
     ELSE /\ Len(quotes) < MaxQuotes
          /\ quotes' = Append(quotes, [likes |-> <<>>, createdAt |-> Len(quotes) + 1])
          /\ liveQuotes' = liveQuotes \cup {Len(quotes) + 1}
          /\ response' = 200
  /\ UNCHANGED <<variant, bookStore, quoteReqs>>

\* DELETE /quotes/:id; an id is never assigned again, and the deleted
\* document is kept here as an empty one
DeleteQuote(id) ==
  /\ Enter
  /\ HasQuotes
  /\ IF ~Connected(quotesCollection) \/ id = BadId
     THEN response' = 500 /\ UNCHANGED <<quotes, liveQuotes>>
     ELSE /\ liveQuotes' = liveQuotes \ {id}
          /\ quotes' = IF QuoteFound(id) THEN [quotes EXCEPT ![id].likes = <<>>] ELSE quotes
          /\ response' = 200
  /\ UNCHANGED <<variant, bookStore, quoteReqs>>

\* GET /quotes: the reply is the live quotes, newest first
GetQuotes ==
  /\ Enter
  /\ HasQuotes
  /\ response' = IF Connected(quotesCollection) THEN 200 ELSE 500
  /\ UNCHANGED <<variant, bookStore, quoteStore>>

\* the store call of a quote route rejects: the handler's catch answers 500
QuoteStoreFail ==
  /\ Enter
  /\ HasQuotes
  /\ response' = 500
  /\ UNCHANGED <<variant, bookStore, quoteStore>>

\* PUT /quotes/:id/like up to the await of findOne
LikeRead(r, id, userId) ==
  /\ Enter
  /\ HasQuotes
  /\ quoteReqs[r].pc # "read"
  /\ userId = Undefined /\ ~RejectsMissingUser /\ QuoteFound(id)
       => Len(quotes[id].likes) < MaxLikes
  /\ IF ~Connected(quotesCollection)
     THEN response' = 500 /\ UNCHANGED quoteReqs
     ELSE IF RejectsMissingUser /\ userId = Undefined
     THEN response' = 400 /\ UNCHANGED quoteReqs
     ELSE IF id = BadId
     THEN response' = 500 /\ UNCHANGED quoteReqs
     ELSE IF ~QuoteFound(id)
     THEN response' = 404 /\ UNCHANGED quoteReqs
     ELSE /\ quoteReqs' = [quoteReqs EXCEPT ![r] =
                 [pc |-> "read", id |-> id, user |-> userId,
                  snap |-> quotes[id].likes, likes |-> <<>>]]
          /\ response' = response
  /\ UNCHANGED <<variant, bookStore, quotes, liveQuotes>>

\* a toggle computed from the likes stored at the time of the write
LikesReadCurrent(r) ==
  IF QuoteFound(quoteReqs[r].id) THEN quotes[quoteReqs[r].id].likes ELSE quoteReqs[r].snap

\* `quote.likes` after the await: the array findOne returned, however long ago
LikesRead(r) == quoteReqs[r].snap

\* PUT /quotes/:id/like from the updateOne to the reply {likesCount}
LikeWrite(r) ==
  /\ phase = "listening"
  /\ quoteReqs[r].pc = "read"
  /\ LET likes == ToggleLikes(LikesRead(r), quoteReqs[r].user)
     IN /\ SetLikes(quoteReqs[r].id, likes)
        /\ quoteReqs' = [quoteReqs EXCEPT ![r].pc = "done", ![r].likes = likes]
  /\ response' = 200
  /\ UNCHANGED <<variant, conn, bookStore, liveQuotes, served>>

\* the updateOne of a like toggle rejects
LikeWriteFail(r) ==
  /\ phase = "listening"
  /\ quoteReqs[r].pc = "read"
  /\ quoteReqs' = [quoteReqs EXCEPT ![r] = IdleQuoteReq]
  /\ response' = 500
  /\ UNCHANGED <<variant, conn, bookStore, quotes, liveQuotes, served>>

(* ------------------------------- books -------------------------------- *)
Entry(u, v) == [userId |-> u, rating |-> v]

\* request bodies without ratingUpdate: an ordinary field, and a
\* caller-supplied ratings array
PlainBodies ==
  { [title |-> "t"],
    [ratings |-> <<Entry("u1", 4), Entry("u1", 2)>>] }

RatingBodies == { [ratingUpdate |-> Entry(u, v)] : u \in Users, v \in Ratings }

Bodies == PlainBodies \cup RatingBodies

IdleBookReq == [pc |-> "idle", id |-> 0, body |-> EmptyDoc, snap |-> <<>>]

\* history kept per book: `organic` while no POST or PUT body has supplied
\* ratings or rating; `serial` while no two ratingUpdates overlapped;
\* `latest` maps each user to the rating of their last served ratingUpdate
NoHistory == [organic |-> FALSE, serial |-> FALSE, latest |-> EmptyDoc]

Supplies(body) == Has(body, "ratings") \/ Has(body, "rating")

BookFound(id) == id \in liveBooks

\* a `$set` on the book with this id; updateOne does not upsert
SetBook(id, upd) ==
  IF BookFound(id)
  THEN books' = [books EXCEPT ![id] = SetFields(@, upd)]
  ELSE books' = books

\* index.js: Array.isArray(book.ratings) ? book.ratings : []
\* part_000: book.ratings || []
CurrentRatings(book) == IF Has(book, "ratings") THEN book.ratings ELSE <<>>

\* ratings.findIndex(r => r.userId === userId); 0 when there is none
FindIndex(ratings, userId) ==
  IF \E i \in DOMAIN ratings : ratings[i].userId = userId
  THEN CHOOSE i \in DOMAIN ratings :
         /\ ratings[i].userId = userId
         /\ \A j \in DOMAIN ratings : ratings[j].userId = userId => i <= j
  ELSE 0

\* a ratingUpdate that pushes every submission
UpdateRatingsPush(ratings, userId, rating) == Append(ratings, Entry(userId, rating))

\* overwrite the user's entry in place, or push a new one
UpdateRatings(ratings, userId, rating) ==
  IF FindIndex(ratings, userId) > 0
  THEN [ratings EXCEPT ![FindIndex(ratings, userId)].rating = rating]
  ELSE Append(ratings, Entry(userId, rating))

RECURSIVE SumRatings(_)
\* ratings.reduce((sum, r) => sum + r.rating, 0)
SumRatings(ratings) ==
  IF ratings = <<>> THEN 0 ELSE Head(ratings).rating + SumRatings(Tail(ratings))

\* (sum / n).toFixed(1) for sum >= 0: the quotient to the nearest tenth, a tie
\* going up, printed with one decimal digit.  Exact for n < 20, where no tie
\* falls on a quotient that a double cannot hold exactly.
ToFixed1(sum, n) ==
  LET tenths == (20 * sum + n) \div (2 * n)
  IN ToString(tenths \div 10) \o "." \o ToString(tenths % 10)

\* a `$set` document whose rating is the mean cut to a whole number
RatingSetFloor(ratings) ==
  [ratings |-> ratings,
   rating |-> ToFixed1(SumRatings(ratings) \div Len(ratings), 1)]

\* the `$set` document of the ratingUpdate branch
RatingSet(ratings) ==
  [ratings |-> ratings, rating |-> ToFixed1(SumRatings(ratings), Len(ratings))]

\* does the PUT handler have a ratingUpdate branch, and does the body take it
TakesRatingBranch(body) == variant # "part_001" /\ Has(body, "ratingUpdate")

\* GET /books
GetBooks ==
  /\ Enter
  /\ response' = IF Connected(booksCollection) THEN 200 ELSE 500
  /\ UNCHANGED <<variant, bookStore, quoteStore>>

\* GET /books/:id: the book, or {} when there is none
GetBook(id) ==
  /\ Enter
  /\ response' = IF Connected(booksCollection) /\ id # BadId THEN 200 ELSE 500
  /\ UNCHANGED <<variant, bookStore, quoteStore>>

\* POST /books: the body is inserted as it is
PostBook(body) ==
  /\ Enter
  /\ IF ~Connected(booksCollection)
     THEN response' = 500 /\ UNCHANGED <<books, liveBooks, submitted>>
     ELSE /\ Len(books) < MaxBooks
          /\ books' = Append(books, body)
          /\ liveBooks' = liveBooks \cup {Len(books) + 1}
          /\ submitted' = Append(submitted,
               [organic |-> ~Supplies(body), serial |-> TRUE, latest |-> EmptyDoc])
          /\ response' = 200
  /\ UNCHANGED <<variant, bookReqs, quoteStore>>

\* DELETE /books/:id; an id is never assigned again, and the deleted
\* document is kept here as an empty one
DeleteBook(id) ==
  /\ Enter
  /\ IF ~Connected(booksCollection) \/ id = BadId
     THEN response' = 500 /\ UNCHANGED <<books, liveBooks, submitted>>
     ELSE /\ liveBooks' = liveBooks \ {id}
          /\ books' = IF BookFound(id) THEN [books EXCEPT ![id] = EmptyDoc] ELSE books
          /\ submitted' = IF BookFound(id)
                          THEN [submitted EXCEPT ![id] = NoHistory] ELSE submitted
          /\ response' = 200
  /\ UNCHANGED <<variant, bookReqs, quoteStore>>

\* the store call of a book route rejects: the handler's catch answers 500
BookStoreFail ==
  /\ Enter
  /\ response' = 500
  /\ UNCHANGED <<variant, bookStore, quoteStore>>

\* the history after a `$set` of a body without ratingUpdate
AfterPlainSet(h, body) == IF Supplies(body) THEN NoHistory ELSE h

\* part_001 PUT /books/:id: one updateOne with the body, its result the reply
PutBookDirect(id, body) ==
  /\ Enter
  /\ variant = "part_001"
  /\ IF ~Connected(booksCollection) \/ id = BadId
     THEN response' = 500 /\ UNCHANGED <<books, submitted>>
     ELSE /\ SetBook(id, body)
          /\ submitted' = IF BookFound(id)
                          THEN [submitted EXCEPT ![id] = AfterPlainSet(@, body)]
                          ELSE submitted
          /\ response' = 200
  /\ UNCHANGED <<variant, liveBooks, bookReqs, quoteStore>>

\* index.js / part_000 PUT /books/:id up to the await of findOne
PutRead(r, id, body) ==
  /\ Enter
  /\ variant # "part_001"
  /\ bookReqs[r].pc = "idle"
  /\ IF ~Connected(booksCollection) \/ id = BadId
     THEN response' = 500 /\ UNCHANGED <<bookReqs, submitted>>
     ELSE IF ~BookFound(id)
     THEN response' = 404 /\ UNCHANGED <<bookReqs, submitted>>
     ELSE /\ bookReqs' = [bookReqs EXCEPT ![r] =
                 [pc |-> "read", id |-> id, body |-> body,
                  snap |-> IF TakesRatingBranch(body)
                           THEN CurrentRatings(books[id]) ELSE <<>>]]
          /\ submitted' =
               IF /\ TakesRatingBranch(body)
                  /\ \E o \in Slots : /\ bookReqs[o].pc = "read"
                                      /\ bookReqs[o].id = id
                                      /\ TakesRatingBranch(bookReqs[o].body)
               THEN [submitted EXCEPT ![id].serial = FALSE, ![id].latest = EmptyDoc]
               ELSE submitted
          /\ response' = response
  /\ UNCHANGED <<variant, books, liveBooks, quoteStore>>

\* index.js / part_000 PUT /books/:id from the updateOne to the reply
PutWrite(r) ==
  /\ phase = "listening"
  /\ bookReqs[r].pc = "read"
  /\ LET q == bookReqs[r]
         u == q.body.ratingUpdate
         h == submitted[q.id]
     IN IF TakesRatingBranch(q.body)
        THEN /\ SetBook(q.id, RatingSet(UpdateRatings(q.snap, u.userId, u.rating)))
             /\ submitted' =
                  IF BookFound(q.id) /\ h.organic /\ h.serial
                  THEN [submitted EXCEPT ![q.id].latest =
                          SetFields(h.latest, [x \in {u.userId} |-> u.rating])]
                  ELSE submitted
        ELSE /\ SetBook(q.id, q.body)
             /\ submitted' = IF BookFound(q.id)
                             THEN [submitted EXCEPT ![q.id] = AfterPlainSet(@, q.body)]
                             ELSE submitted
  /\ bookReqs' = [bookReqs EXCEPT ![r] = IdleBookReq]
  /\ response' = 200
  /\ UNCHANGED <<variant, conn, liveBooks, quoteStore, served>>

\* the updateOne of a PUT /books/:id rejects
PutWriteFail(r) ==
  /\ phase = "listening"
  /\ bookReqs[r].pc = "read"
  /\ bookReqs' = [bookReqs EXCEPT ![r] = IdleBookReq]
  /\ response' = 500
  /\ UNCHANGED <<variant, conn, books, liveBooks, submitted, quoteStore, served>>

(* ------------------------- specification ------------------------------ *)
Init ==
  /\ variant \in Variants
  /\ phase = "init"
  /\ connects = 0
  /\ booksCollection = 0
  /\ quotesCollection = 0
  /\ books = <<>>
  /\ liveBooks = {}
  /\ quotes = <<>>
  /\ liveQuotes = {}
  /\ quoteReqs = [r \in Slots |-> IdleQuoteReq]
  /\ bookReqs = [r \in Slots |-> IdleBookReq]
  /\ submitted = <<>>
  /\ served = 0
  /\ response = 0

NextConn ==
  \/ StartupConnect
  \/ StartupConnectFail
  \/ StartupPing
  \/ StartupPingFail
  \/ Health
  \/ HealthFail

NextQuotes ==
  \/ \E body \in QuoteBodies : PostQuote(body)
  \/ \E id \in QuotePathIds : DeleteQuote(id)
  \/ GetQuotes
  \/ QuoteStoreFail
  \/ \E r \in Slots, id \in QuotePathIds, u \in Users \cup {Undefined} : LikeRead(r, id, u)
  \/ \E r \in Slots : LikeWrite(r)
  \/ \E r \in Slots : LikeWriteFail(r)

NextBooks ==
  \/ GetBooks
  \/ \E id \in BookPathIds : GetBook(id)
  \/ \E body \in PlainBodies : PostBook(body)
  \/ \E id \in BookPathIds : DeleteBook(id)
  \/ BookStoreFail
  \/ \E id \in BookPathIds, body \in Bodies : PutBookDirect(id, body)
  \/ \E r \in Slots, id \in BookPathIds, body \in Bodies : PutRead(r, id, body)
  \/ \E r \in Slots : PutWrite(r)
  \/ \E r \in Slots : PutWriteFail(r)

Next == NextConn \/ NextBooks \/ NextQuotes

Spec == Init /\ [][Next]_vars


(* ------------------------------ claims -------------------------------- *)
SameMembers(s, t) == Range(s) = Range(t)

\* r1 was served before r2, and r2 read the likes r1 stored
ToggledTwice(r1, r2) ==
  /\ r1 # r2
  /\ quoteReqs[r1].pc = "done"
  /\ quoteReqs[r2].pc = "done"
  /\ quoteReqs[r1].id = quoteReqs[r2].id
  /\ quoteReqs[r1].user = quoteReqs[r2].user
  /\ quoteReqs[r1].user \in Users
  /\ quoteReqs[r2].snap = quoteReqs[r1].likes

\* C3: two like toggles by one userId on one quote, the second reading what
\* the first stored, store a like set with the members and the cardinality
\* the quote had before the first
C3_DoubleToggleRestores ==
  \A r1, r2 \in Slots :
    ToggledTwice(r1, r2) =>
      /\ SameMembers(quoteReqs[r2].likes, quoteReqs[r1].snap)
      /\ Len(quoteReqs[r2].likes) = Len(quoteReqs[r1].snap)

\* a like followed by an unlike, by a user, of a quote another user likes;
\* the quote holds what the second toggle stored
C3_Witness ==
  \E r1, r2 \in Slots :
    /\ ToggledTwice(r1, r2)
    /\ quoteReqs[r1].snap # <<>>
    /\ Includes(quoteReqs[r1].likes, quoteReqs[r1].user)
    /\ QuoteFound(quoteReqs[r2].id)
    /\ quotes[quoteReqs[r2].id].likes = quoteReqs[r2].likes

LikeWriteStep(r) == quoteReqs[r].pc = "read" /\ quoteReqs'[r].pc = "done"

\* C5: the write of a like toggle is answered with success and stores the
\* likes as read at findOne with only the requester toggled: every other
\* user's membership is the one read, whatever was stored in between
C5_WriteFromStaleRead ==
  [][\A r \in Slots :
       LikeWriteStep(r) /\ QuoteFound(quoteReqs[r].id) =>
         /\ response' = 200
         /\ quotes'[quoteReqs[r].id].likes = quoteReqs'[r].likes
         /\ \A v \in Users \ {quoteReqs[r].user} :
              Includes(quotes'[quoteReqs[r].id].likes, v)
                <=> Includes(quoteReqs[r].snap, v)]_vars

\* two toggles by different users read the same likes, both were answered
\* with success, and the stored likes hold the later writer's like only
C5_LostUpdate ==
  \E r1, r2 \in Slots :
    /\ quoteReqs[r1].pc = "done"
    /\ quoteReqs[r2].pc = "done"
    /\ quoteReqs[r1].id = quoteReqs[r2].id
    /\ quoteReqs[r1].user \in Users
    /\ quoteReqs[r2].user \in Users
    /\ quoteReqs[r1].user # quoteReqs[r2].user
    /\ quoteReqs[r1].snap = <<>>
    /\ quoteReqs[r2].snap = <<>>
    /\ QuoteFound(quoteReqs[r1].id)
    /\ quotes[quoteReqs[r1].id].likes = <<quoteReqs[r2].user>>

\* C7: a like toggle whose body has no userId is answered 400 and changes
\* no quote, nor is it taken any further
C7_MissingUserIdRejected ==
  [][\A r \in Slots, id \in liveQuotes :
       LikeRead(r, id, Undefined) =>
         /\ response' = 400
         /\ UNCHANGED <<quotes, liveQuotes, quoteReqs>>]_vars

\* index.js alone keeps C7: a request without userId never leaves the
\* validation, and no like set holds the null it would store
C7_IndexRejectsMissingUserId ==
  variant = "index" =>
    /\ \A r \in Slots : quoteReqs[r].user = Undefined => quoteReqs[r].pc = "idle"
    /\ \A id \in liveQuotes : ~Includes(quotes[id].likes, Null)


Decimal(t) == ToString(t \div 10) \o "." \o ToString(t % 10)

\* str is sum / n rounded to one decimal place
IsMeanToOneDecimal(str, sum, n) ==
  \E t \in 0..100 :
    /\ str = Decimal(t)
    /\ 2 * (10 * sum - t * n) <= n
    /\ 2 * (t * n - 10 * sum) <= n

\* rating is the rounded mean of ratings, or absent when there are none
RatingIsMean(book) ==
  IF Has(book, "ratings") /\ book.ratings # <<>>
  THEN /\ Has(book, "rating")
       /\ IsMeanToOneDecimal(book.rating, SumRatings(book.ratings), Len(book.ratings))
  ELSE ~Has(book, "rating")

\* C1 as claimed: every stored book's rating is the rounded mean of its
\* ratings, and absent when it has none
C1_RatingAlwaysMean == \A id \in liveBooks : RatingIsMean(books[id])

\* C1 as amended: the same of every stored book whose ratings and rating no
\* POST or PUT body has supplied
C1_OrganicRatingIsMean ==
  \A id \in liveBooks : submitted[id].organic => RatingIsMean(books[id])

\* two users' ratingUpdates on one book, rating "4.5"
C1_Witness ==
  \E id \in liveBooks :
    /\ submitted[id].organic
    /\ Has(books[id], "ratings")
    /\ Len(books[id].ratings) = 2
    /\ books[id].rating = "4.5"

RECURSIVE SumOver(_, _)
SumOver(f, dom) ==
  IF dom = {} THEN 0
  ELSE LET u == CHOOSE x \in dom : TRUE IN f[u] + SumOver(f, dom \ {u})

\* the book was rated, by ratingUpdates served one after another and nothing else
RatedSerially(id) ==
  /\ id \in liveBooks
  /\ submitted[id].organic
  /\ submitted[id].serial
  /\ DOMAIN submitted[id].latest # {}

UniquePerUser(ratings) ==
  \A i, j \in DOMAIN ratings : ratings[i].userId = ratings[j].userId => i = j

\* C6 as claimed: every stored book's ratings has one entry per userId at most
C6_RatingsUniquePerUser ==
  \A id \in liveBooks : Has(books[id], "ratings") => UniquePerUser(books[id].ratings)

\* C6 as amended: the same of every stored book whose ratings no POST or PUT
\* body has supplied
C6_OrganicRatingsUnique ==
  \A id \in liveBooks :
    submitted[id].organic /\ Has(books[id], "ratings") => UniquePerUser(books[id].ratings)

\* overlapping ratingUpdates were served on a book that two users have rated
C6_Witness ==
  \E id \in liveBooks :
    /\ submitted[id].organic
    /\ ~submitted[id].serial
    /\ Has(books[id], "ratings")
    /\ Len(books[id].ratings) = 2

\* C8: client.connect() is invoked once at most, and while the server
\* listens the collection handles are those made after that one connect
C8_ConnectsOnce ==
  /\ connects <= 1
  /\ phase = "listening" =>
       /\ booksCollection = 1
       /\ HasQuotes => quotesCollection = 1

\* part_000 has served requests, each of which called connectDB
C8_Witness ==
  /\ variant = "part_000"
  /\ phase = "listening"
  /\ connects = 1
  /\ served = MaxRequests
  /\ liveQuotes # {}
  /\ \E id \in liveBooks : Has(books[id], "rating")

\* an id-addressed request with the malformed id (the like toggle with a userId)
BadIdRequest ==
  \/ GetBook(BadId)
  \/ DeleteBook(BadId)
  \/ \E body \in Bodies : PutBookDirect(BadId, body)
  \/ \E r \in Slots, body \in Bodies : PutRead(r, BadId, body)
  \/ DeleteQuote(BadId)
  \/ \E r \in Slots, u \in Users : LikeRead(r, BadId, u)

\* C9: a request whose path id is malformed is answered 4xx, changes no
\* book and no quote, and the server goes on listening
C9_MalformedIdClientError ==
  [][BadIdRequest =>
       /\ response' \in 400..499
       /\ UNCHANGED <<bookStore, quoteStore>>
       /\ phase' = "listening"]_vars

\* what holds of C9: the store is unchanged and the server goes on listening,
\* the answer being 500
C9_MalformedIdServerError ==
  [][BadIdRequest =>
       /\ response' = 500
       /\ UNCHANGED <<bookStore, quoteStore>>
       /\ phase' = "listening"]_vars

\* a PUT /books/:id, or a like toggle with a userId, for a well-formed id
\* under which nothing is stored
AbsentIdPut ==
  \/ \E id \in 1..MaxBooks, body \in Bodies :
        /\ ~BookFound(id)
        /\ \/ PutBookDirect(id, body)
           \/ \E r \in Slots : PutRead(r, id, body)
  \/ \E id \in 1..MaxQuotes, r \in Slots, u \in Users :
        ~QuoteFound(id) /\ LikeRead(r, id, u)

\* C10: a PUT for a well-formed id with nothing stored under it is answered
\* 404, creates nothing and changes nothing stored
C10_PutAbsentNotFound ==
  [][AbsentIdPut =>
       /\ response' = 404
       /\ UNCHANGED <<books, liveBooks, quotes, liveQuotes>>]_vars

\* what holds of C10 in every revision: nothing is created or changed, and
\* the answer is 404 wherever the handler looks the document up first
C10_PutAbsentChangesNothing ==
  [][AbsentIdPut =>
       /\ response' = IF variant = "part_001" THEN 200 ELSE 404
       /\ UNCHANGED <<books, liveBooks, quotes, liveQuotes>>]_vars

\* the handles every handler of the running revision uses are set
StoreReady ==
  /\ connects >= 1
  /\ booksCollection # 0
  /\ HasQuotes => quotesCollection # 0

\* a store call of a request throws: the first one of a handler, the
\* updateOne after a findOne, or the ping of /health
RequestFailure ==
  \/ BookStoreFail
  \/ QuoteStoreFail
  \/ HealthFail
  \/ \E r \in Slots : PutWriteFail(r)
  \/ \E r \in Slots : LikeWriteFail(r)

\* C11: the server listens only after connectDB completed (the handles are
\* set); a request is served only by a listening server, so a process that
\* exited at startup served none and sent no response; once listening the
\* process never leaves that phase, and a store failure during a request,
\* /health included, is answered with an error status by a process that
\* goes on listening
C11_FailFastStartup ==
  /\ [](phase = "listening" => StoreReady)
  /\ [](served > 0 \/ response # 0 => phase = "listening")
  /\ [](phase = "exited" => served = 0 /\ response = 0)
  /\ [][/\ phase' = "listening" =>
            \/ phase = "listening"
            \/ phase = "pinging"
            \/ phase = "init" /\ variant = "part_000"
        /\ phase = "listening" => phase' = "listening"
        /\ phase # "exited"
        /\ RequestFailure => response' \in 500..599 /\ phase' = "listening"]_vars

\* after startup every request the budget allows was received, the last
\* response sent is an error, and the server still listens on its handles
C11_Witness ==
  /\ phase = "listening"
  /\ StoreReady
  /\ served = MaxRequests
  /\ response = 500
  /\ liveBooks # {}

=============================================================================
